---------------------------- MODULE Spec2Model ----------------------------
(***************************************************************************)
(* Device connection and polling lifecycle of the ESP32 soil-sensor client *)
(* (src/unnamed/part_002, component App).                                  *)
(*                                                                         *)
(* The component is a React function component.  Its state is the set of   *)
(* useState cells, the pollingIntervalRef ref, and what the browser holds  *)
(* for it: the live interval timers, the GATT link of the device, the      *)
(* listeners registered on the device, and the asynchronous invocations of *)
(* handleConnect and readSensorData that are suspended at an await.        *)
(* Callbacks close over the values of the render in which they were        *)
(* created; the only state value a callback reads from its closure is      *)
(* `device` (in handleDisconnect), so every suspended invocation, timer    *)
(* and listener carries the value of `device` it captured (closDev).       *)
(* One step of the model is one browser task run to completion: the event  *)
(* handler or promise continuation together with the continuations that    *)
(* become runnable without further I/O.                                    *)
(* The wall-clock timestamp of a log entry is not modelled.                *)
(***************************************************************************)
EXTENDS Integers, Sequences, FiniteSets, TLC

\* Bounds of the exploration.
MaxConnects == 2
MaxTicks == 1
MaxAnalyses == 2
MaxReloads == 1
MaxSpeaks == 5
MaxSends == 3
MaxWeather == 2
MaxCommands == 2

Null == "null"
Dev == "ESP32-SoilSensor"

\* pollingIntervalRef.current when it is null (timer ids are positive).
NoTimer == 0

\* A field of SensorData that is null.
Absent == [absent |-> TRUE]

NoData == [temperature |-> Absent, moisture |-> Absent, ph |-> Absent]

\* readSensorData with the moisture read ahead of the temperature read.
PollOpsMoistureFirst ==
    << "getPrimaryService", "readMoisture", "readTemp", "readPh" >>

\* The awaited GATT operations of one readSensorData invocation, in order.
\* getCharacteristic and the readValue that follows it are one operation
\* here: nothing of the component changes between the two awaits.
PollOps == << "getPrimaryService", "readTemp", "readMoisture", "readPh" >>

\* Payloads the peripheral may return (little-endian byte sequences).
TempPayloads == { <<196, 9>> }
MoisturePayloads == { <<160, 15>> }
PhPayloads == { <<0, 0, 208, 64>> }

\* A peripheral with a fixed reading: raw 2500, raw 4000, pH 6.5.
SteadyPeripheral ==
    [temperature |-> TempPayloads, moisture |-> MoisturePayloads,
     ph |-> PhPayloads]

\* A peripheral whose readings vary: temperatures on both sides of zero and
\* at the lower end of the int16 range, moistures at both ends of the uint16
\* range, pH values of either sign, zero, and with a full 24-bit significand.
\* (NaN, the infinities and subnormal numbers are left out: the readings
\* are kept as exact fractions.)
VaryingPeripheral ==
    [temperature |-> { <<196, 9>>, <<156, 255>>, <<0, 128>> },
     moisture |-> { <<160, 15>>, <<0, 0>>, <<255, 255>> },
     ph |-> { <<0, 0, 208, 64>>, <<154, 153, 217, 64>>, <<0, 0, 192, 191>>,
              <<0, 0, 0, 0>> }]

\* A peripheral whose temperature and moisture change between two values.
DriftingPeripheral ==
    [temperature |-> { <<196, 9>>, <<156, 255>> },
     moisture |-> { <<160, 15>>, <<0, 0>> },
     ph |-> { <<0, 0, 208, 64>> }]

\* No DataView read yet.
NoValue == << >>

VARIABLES
    isBluetoothSupported, isConnected, isConnecting, device, sensorData, logs,
    pollingIntervalRef,
    timers, nextTimerId, gattConnected, listeners, connects, polls, nextPollId,
    last, nConnects, nTicks, nDiscoveries, failedSinceConnect, userClosed, lastOp,
    peripheral, published,
    \* src/App.tsx (AppContent) and the SettingsProvider around it
    appMounted, appCrashed, history, currentResult, isLoading, error,
    isHistoryModalOpen, settings, analyses, storage, storedHistory,
    storedSettings, nAnalyses, nReloads, prevHistory,
    \* src/hooks/useNotifications.ts (useVoiceAssistant)
    isSpeaking, isGenerating, audioContextRef, sourceRef, speaks, nSpeaks,
    \* src/components/ChatInterface.tsx (its isLoading is chatIsLoading here,
    \* its input chatInput)
    messages, chatInput, chatIsLoading, chatRequests, nSends,
    \* src/unnamed/part_003 (SoilInputForm), src/unnamed/part_007
    \* (useGeolocation, whose `error` is geoError here) and navigator
    formData, geolocationSupported, latitude, longitude, geoError,
    isFetchingWeather, weatherError, weatherCalls, weatherThrew, nWeather,
    isParsingVoice, voiceError, parses, parsedData, nCommands

vars == << isBluetoothSupported, isConnected, isConnecting, device, sensorData,
           logs, pollingIntervalRef, timers, nextTimerId, gattConnected,
           listeners, connects, polls, nextPollId,
           last, nConnects, nTicks, nDiscoveries, failedSinceConnect,
           userClosed, lastOp, peripheral, published,
           appMounted, appCrashed, history, currentResult, isLoading, error,
           isHistoryModalOpen, settings, analyses, storage, storedHistory,
           storedSettings, nAnalyses, nReloads, prevHistory,
           isSpeaking, isGenerating, audioContextRef, sourceRef, speaks,
           nSpeaks, messages, chatInput, chatIsLoading, chatRequests,
           nSends, formData, geolocationSupported, latitude, longitude,
           geoError, isFetchingWeather, weatherError, weatherCalls,
           weatherThrew, nWeather, isParsingVoice, voiceError, parses,
           parsedData, nCommands >>

\* The state of the analysis page, and that of the device page without the
\* record of the last step.
appVars == << appMounted, appCrashed, history, currentResult, isLoading, error,
              isHistoryModalOpen, settings, analyses, storage, storedHistory,
              storedSettings, nAnalyses, nReloads, prevHistory >>

voiceVars == << isSpeaking, isGenerating, audioContextRef, sourceRef, speaks,
               nSpeaks >>

\* The hooks and components other than the device page and the analysis
\* page.
chatVars == << messages, chatInput, chatIsLoading, chatRequests, nSends >>

weatherVars == << geolocationSupported, latitude, longitude, geoError,
                 isFetchingWeather, weatherError, weatherCalls, weatherThrew,
                 nWeather >>

voiceInputVars == << isParsingVoice, voiceError, parses, parsedData, nCommands >>

formVars == << formData, weatherVars, voiceInputVars >>

otherVars == << voiceVars, chatVars, formVars >>

deviceVars == << isBluetoothSupported, isConnected, isConnecting, device,
                 sensorData, logs, pollingIntervalRef, timers, nextTimerId,
                 gattConnected, listeners, connects, polls, nextPollId,
                 nConnects, nTicks, nDiscoveries, failedSinceConnect,
                 userClosed, peripheral, published >>

-----------------------------------------------------------------------------
\* DataView decoding

GetUint16LE(b) == b[1] + 256 * b[2]

\* getInt16 read as getUint16.
GetInt16LENoSign(b) == GetUint16LE(b)

GetInt16LE(b) == IF GetUint16LE(b) >= 32768 THEN GetUint16LE(b) - 65536
                 ELSE GetUint16LE(b)

RECURSIVE Pow2(_)
Pow2(n) == IF n = 0 THEN 1 ELSE 2 * Pow2(n - 1)

RECURSIVE Reduce2(_, _)
\* n / d with d a power of two, in lowest terms.
Reduce2(n, d) == IF d > 1 /\ n % 2 = 0 THEN Reduce2(n \div 2, d \div 2)
                 ELSE [num |-> n, den |-> d]

\* IEEE-754 binary32, zero and normal numbers, as an exact fraction in
\* lowest terms.
GetFloat32LE(b) ==
    LET sign == b[4] \div 128
        e    == (b[4] % 128) * 2 + b[3] \div 128
        m    == (b[3] % 128) * 65536 + b[2] * 256 + b[1]
        sig  == Reduce2(8388608 + m, 8388608)
        mag  == IF e = 0 /\ m = 0 THEN [num |-> 0, den |-> 1]
                ELSE IF e >= 127
                THEN Reduce2(sig.num * Pow2(e - 127), sig.den)
                ELSE Reduce2(sig.num, sig.den * Pow2(127 - e))
    IN [num |-> IF sign = 1 THEN 0 - mag.num ELSE mag.num, den |-> mag.den]

\* value / 100.0
Div100(v) == [num |-> v, den |-> 100]

-----------------------------------------------------------------------------
\* The component's mutable state as one record, so that the callbacks can be
\* written as functions of it.  `threw` tells whether the running callback
\* ended by an exception (a TypeError on a null dereference); `published`
\* keeps the three DataViews from which the last reading was published.

Sess == [ isConnected |-> isConnected, isConnecting |-> isConnecting,
          device |-> device, sensorData |-> sensorData, logs |-> logs,
          ref |-> pollingIntervalRef, timers |-> timers,
          nextTimerId |-> nextTimerId, gatt |-> gattConnected,
          listeners |-> listeners, connects |-> connects, polls |-> polls,
          nextPollId |-> nextPollId, threw |-> FALSE,
          published |-> published ]

Commit(s) ==
    /\ isConnected' = s.isConnected
    /\ isConnecting' = s.isConnecting
    /\ device' = s.device
    /\ sensorData' = s.sensorData
    /\ logs' = s.logs
    /\ pollingIntervalRef' = s.ref
    /\ timers' = s.timers
    /\ nextTimerId' = s.nextTimerId
    /\ gattConnected' = s.gatt
    /\ listeners' = s.listeners
    /\ connects' = s.connects
    /\ polls' = s.polls
    /\ nextPollId' = s.nextPollId
    /\ published' = s.published
    /\ UNCHANGED << isBluetoothSupported, peripheral >>
    /\ UNCHANGED << appVars, otherVars >>

\* What the header renders: the status label, and which button is shown and
\* enabled.
StatusLabel == IF isConnected THEN "Connected" ELSE "Disconnected"

\* The session state the two flags stand for: the label takes isConnected
\* first, the Connect button shows "Connecting..." only when not connected.
SessionState == IF isConnected THEN "Connected"
                ELSE IF isConnecting THEN "Connecting"
                ELSE "Disconnected"

\* The Connect button without its `disabled` attribute.
ConnectButtonAlwaysEnabled == ~isConnected

ConnectButtonEnabled == ~isConnected /\ ~isConnecting

DisconnectButtonShown == isConnected

-----------------------------------------------------------------------------
\* Callbacks

\* addLog putting the entry at the end.
addLogAtTail(s, m) == [s EXCEPT !.logs = @ \o << [message |-> m] >>]

addLog(s, m) == [s EXCEPT !.logs = << [message |-> m] >> \o @]

stopPolling(s) ==
    IF s.ref # NoTimer
    THEN [s EXCEPT !.timers = {t \in @ : t.id # s.ref}, !.ref = NoTimer]
    ELSE s

\* The link went down: every GATT operation still pending on it rejects.
BreakPolls(ps) == { [p EXCEPT !.broken = TRUE] : p \in ps }

RECURSIVE handleDisconnect(_, _)

\* A device on which no gattserverdisconnected listener acts.
dispatchDisconnectedNoListener(s) == s

\* gattserverdisconnected is dispatched to every listener registered on the
\* device; each listener is the handleDisconnect of the render in which its
\* handleConnect was created, closing over that render's `device`.
dispatchDisconnected(s) ==
    LET a == IF Null \in s.listeners THEN handleDisconnect(Null, s) ELSE s
    IN IF Dev \in s.listeners THEN handleDisconnect(Dev, a) ELSE a

\* The link goes down, by gatt.disconnect() or by the peripheral: the pending
\* operations reject and the event is dispatched.
linkDown(s) ==
    dispatchDisconnected([s EXCEPT !.gatt = FALSE, !.polls = BreakPolls(@)])

gattDisconnect(s) == linkDown(s)

\* handleDisconnect with `device.gatt.connected` in place of
\* `device?.gatt?.connected`: a null device throws.
handleDisconnectNoOptionalChaining(closDev, s) ==
    LET s1 == stopPolling(s)
    IN IF closDev = Null THEN [s1 EXCEPT !.threw = TRUE]
       ELSE LET s2 == IF s1.gatt
                      THEN addLog(gattDisconnect(s1), "Disconnected from device.")
                      ELSE s1
            IN [s2 EXCEPT !.isConnected = FALSE, !.device = Null,
                          !.sensorData = NoData]

handleDisconnect(closDev, s) ==
    LET s1 == stopPolling(s)
        s2 == IF closDev # Null /\ s1.gatt
              THEN addLog(gattDisconnect(s1), "Disconnected from device.")
              ELSE s1
    IN [s2 EXCEPT !.isConnected = FALSE, !.device = Null,
                  !.sensorData = NoData]

\* readSensorData up to its first await.  On a server that is not connected
\* getPrimaryService rejects.
readSensorDataStart(s, origin, closDev) ==
    LET s1 == addLog(s, "Reading sensor data...")
    IN [s1 EXCEPT !.polls = @ \cup { [id |-> s.nextPollId, origin |-> origin,
                                     op |-> 1, broken |-> ~s.gatt,
                                     closDev |-> closDev,
                                     tempValue |-> NoValue,
                                     temperature |-> Absent,
                                     moistureValue |-> NoValue,
                                     moisture |-> Absent,
                                     phValue |-> NoValue, ph |-> Absent] },
                  !.nextPollId = @ + 1]

\* handleConnect without its finally block.
handleConnectResumeNoFinally(s, c) ==
    [s EXCEPT !.ref = s.nextTimerId,
              !.timers = @ \cup { [id |-> s.nextTimerId, closDev |-> c.closDev] },
              !.nextTimerId = @ + 1,
              !.connects = @ \ {c}]

\* handleConnect after `await readSensorData(server)`: arm the interval, then
\* the finally block.
handleConnectResume(s, c) ==
    [s EXCEPT !.ref = s.nextTimerId,
              !.timers = @ \cup { [id |-> s.nextTimerId, closDev |-> c.closDev] },
              !.nextTimerId = @ + 1,
              !.isConnecting = FALSE,
              !.connects = @ \ {c}]

\* The continuation of whoever awaited the poll: handleConnect for the
\* immediate poll, nobody for a timer-driven one.
AfterPoll(s, p) ==
    IF p.origin = 0 THEN s
    ELSE LET c == CHOOSE x \in s.connects : x.id = p.origin
         IN handleConnectResume(s, c)

-----------------------------------------------------------------------------
\* Soil analysis, its history and the settings (src/App.tsx,
\* src/unnamed/part_001, src/components/HistoryTable.tsx)
\*
\* A text is kept by what JSON.parse makes of it: the empty text, a text that
\* is not JSON, or the JSON text of a value.  What localStorage holds under a
\* key is a text or nothing.  localStorage itself is usable, full (setItem
\* throws) or denied (every access throws).

NoBlob == [kind |-> "none"]
EmptyText == [kind |-> "empty"]
GarbageText == [kind |-> "garbage"]

JSONStringify(v) == [kind |-> "json", value |-> v]

\* JSON.parse: the value, or a SyntaxError.
JSONParse(text) ==
    IF text.kind = "json" THEN [threw |-> FALSE, value |-> text.value]
    ELSE [threw |-> TRUE, value |-> Absent]

\* localStorage.setItem(key, JSON.stringify(v)) inside try/catch: what the
\* key holds afterwards.
SetItem(st, old, v) == IF st = "ok" THEN JSONStringify(v) ELSE old

\* The try block of the history initialiser.
LoadHistoryTry(st, blob) ==
    IF st = "denied" THEN [threw |-> TRUE, value |-> << >>]
    ELSE IF blob.kind \in {"none", "empty"} THEN [threw |-> FALSE, value |-> << >>]
    ELSE IF JSONParse(blob).threw THEN [threw |-> TRUE, value |-> << >>]
    ELSE [threw |-> FALSE, value |-> JSONParse(blob).value]

\* The history initialiser without its catch.
LoadHistoryNoCatch(st, blob) == LoadHistoryTry(st, blob)

\* useState initialiser of `history`.
LoadHistory(st, blob) ==
    IF LoadHistoryTry(st, blob).threw THEN [threw |-> FALSE, value |-> << >>]
    ELSE LoadHistoryTry(st, blob)

defaultSettings ==
    [unit |-> "Celsius", language |-> "te-IN", uiLanguage |-> "en",
     theme |-> "system"]

\* { ...a, ...b }
Spread(a, b) ==
    [k \in DOMAIN a \cup DOMAIN b |-> IF k \in DOMAIN b THEN b[k] ELSE a[k]]

\* The try block of the settings initialiser.
LoadSettingsTry(st, blob) ==
    IF st = "denied" THEN [threw |-> TRUE, value |-> defaultSettings]
    ELSE IF blob.kind \in {"none", "empty"}
    THEN [threw |-> FALSE, value |-> defaultSettings]
    ELSE IF JSONParse(blob).threw THEN [threw |-> TRUE, value |-> defaultSettings]
    ELSE [threw |-> FALSE, value |-> Spread(defaultSettings, JSONParse(blob).value)]

\* useState initialiser of `settings`.
LoadSettings(st, blob) ==
    IF LoadSettingsTry(st, blob).threw
    THEN [threw |-> FALSE, value |-> defaultSettings]
    ELSE LoadSettingsTry(st, blob)

\* The form's soil data, an analysis of the expected structure, and a JSON
\* value of another structure.
SoilInput ==
    [ph |-> 7, moisture |-> 50, temperature |-> 25, nitrogen |-> 50,
     phosphorus |-> 50, potassium |-> 50]

GoodResult ==
    [soil_health_score |-> 80, interpretation |-> "healthy",
     recommendations |-> [plants |-> << >>, amendments |-> << >>]]

OtherJSON == [message |-> "quota exceeded"]

IsAnalysisResult(v) ==
    DOMAIN v = {"soil_health_score", "interpretation", "recommendations"}

\* An entry saved by an earlier visit.
OldEntry == [id |-> 0, data |-> SoilInput, result |-> GoodResult]

\* What generateContent can come back with: a rejection, or a response
\* whose text is empty, not JSON, JSON of another structure, or an analysis.
Responses ==
    { [kind |-> "rejected", text |-> NoBlob],
      [kind |-> "response", text |-> EmptyText],
      [kind |-> "response", text |-> GarbageText],
      [kind |-> "response", text |-> JSONStringify(OtherJSON)],
      [kind |-> "response", text |-> JSONStringify(GoodResult)] }

ResponseClass(resp) ==
    IF resp.kind = "rejected" THEN "rejected"
    ELSE IF resp.text.kind = "empty" THEN "empty"
    ELSE IF resp.text.kind # "json" THEN "unparsable"
    ELSE IF IsAnalysisResult(resp.text.value) THEN "analysis"
    ELSE "otherStructure"

FailedMessage ==
    "Failed to get analysis from AI. Please check your API key and network connection."

\* analyzeSoil from the settling of generateContent on: the parsed text, or
\* the one error every failure inside the try block is replaced by.
analyzeSoil(resp) ==
    IF resp.kind = "rejected" \/ resp.text.kind = "empty" \/ JSONParse(resp.text).threw
    THEN [threw |-> TRUE, value |-> Absent, message |-> FailedMessage]
    ELSE [threw |-> FALSE, value |-> JSONParse(resp.text).value, message |-> ""]

\* The page before its first render.
AppUnmounted ==
    /\ appMounted = FALSE
    /\ appCrashed = FALSE
    /\ history = << >>
    /\ currentResult = Absent
    /\ isLoading = FALSE
    /\ error = Null
    /\ isHistoryModalOpen = FALSE
    /\ settings = defaultSettings
    /\ analyses = {}
    /\ nAnalyses = 0
    /\ nReloads = 0
    /\ prevHistory = << >>

\* The record of the last step of the analysis page.
AppStep(name, op) ==
    /\ last' = name
    /\ lastOp' = op
    /\ prevHistory' = history
    /\ UNCHANGED << deviceVars, otherVars >>

\* First render of SettingsProvider and AppContent, and their save effects.
Mount ==
    /\ ~appMounted /\ ~appCrashed
    /\ LET h == LoadHistory(storage, storedHistory)
           s == LoadSettings(storage, storedSettings)
       IN /\ appCrashed' = (h.threw \/ s.threw)
          /\ appMounted' = ~(h.threw \/ s.threw)
          /\ history' = h.value
          /\ settings' = s.value
          /\ storedHistory' = IF h.threw \/ s.threw THEN storedHistory
                              ELSE SetItem(storage, storedHistory, h.value)
          /\ storedSettings' = IF h.threw \/ s.threw THEN storedSettings
                               ELSE SetItem(storage, storedSettings, s.value)
    /\ currentResult' = Absent
    /\ isLoading' = FALSE
    /\ error' = Null
    /\ isHistoryModalOpen' = FALSE
    /\ UNCHANGED << analyses, storage, nAnalyses, nReloads >>
    /\ AppStep("Mount", "")

\* Submit of the form: handleAnalysis up to `await analyzeSoil`.
handleAnalysis ==
    /\ appMounted /\ ~isLoading
    /\ nAnalyses < MaxAnalyses
    /\ isLoading' = TRUE
    /\ error' = Null
    /\ currentResult' = Absent
    /\ analyses' = analyses \cup { [id |-> nAnalyses + 1, data |-> SoilInput] }
    /\ nAnalyses' = nAnalyses + 1
    /\ UNCHANGED << appMounted, appCrashed, history, isHistoryModalOpen,
                    settings, storage, storedHistory, storedSettings, nReloads >>
    /\ AppStep("handleAnalysis", "")

\* generateContent settled: the rest of analyzeSoil, the rest of
\* handleAnalysis, and the save effect if the history changed.
AnalysisSettle ==
    \E a \in analyses : \E resp \in Responses :
        /\ appMounted
        /\ LET r == analyzeSoil(resp)
               newEntry == [id |-> a.id, data |-> a.data, result |-> r.value]
           IN IF r.threw
              THEN /\ error' = r.message
                   /\ UNCHANGED << currentResult, history, storedHistory >>
              ELSE /\ currentResult' = r.value
                   /\ history' = << newEntry >> \o history
                   /\ storedHistory' = SetItem(storage, storedHistory,
                                               << newEntry >> \o history)
                   /\ UNCHANGED error
        /\ isLoading' = FALSE
        /\ analyses' = analyses \ {a}
        /\ UNCHANGED << appMounted, appCrashed, isHistoryModalOpen, settings,
                        storage, storedSettings, nAnalyses, nReloads >>
        /\ AppStep("AnalysisSettle", ResponseClass(resp))

OpenHistoryModal ==
    /\ appMounted /\ ~isHistoryModalOpen
    /\ isHistoryModalOpen' = TRUE
    /\ UNCHANGED << appMounted, appCrashed, history, currentResult, isLoading,
                    error, settings, analyses, storage, storedHistory,
                    storedSettings, nAnalyses, nReloads >>
    /\ AppStep("OpenHistoryModal", "")

\* The button in the history modal, shown when the history is not empty.
clearHistory ==
    /\ appMounted /\ isHistoryModalOpen /\ Len(history) > 0
    /\ history' = << >>
    /\ currentResult' = Absent
    /\ isHistoryModalOpen' = FALSE
    /\ storedHistory' = SetItem(storage, storedHistory, << >>)
    /\ UNCHANGED << appMounted, appCrashed, isLoading, error, settings,
                    analyses, storage, storedSettings, nAnalyses, nReloads >>
    /\ AppStep("clearHistory", "")

\* The page is reloaded: the component state and the pending request are
\* gone, localStorage stays.
Reload ==
    /\ appMounted
    /\ nReloads < MaxReloads
    /\ appMounted' = FALSE
    /\ history' = << >>
    /\ currentResult' = Absent
    /\ isLoading' = FALSE
    /\ error' = Null
    /\ isHistoryModalOpen' = FALSE
    /\ settings' = defaultSettings
    /\ analyses' = {}
    /\ nReloads' = nReloads + 1
    /\ UNCHANGED << appCrashed, storage, storedHistory, storedSettings,
                    nAnalyses >>
    /\ AppStep("Reload", "")

-----------------------------------------------------------------------------
\* The voice assistant (src/hooks/useNotifications.ts, useVoiceAssistant)
\*
\* `speak` is a useCallback over [isGenerating, isSpeaking]: an invocation
\* reads the two flags of the render in which its callback was created, at
\* the call and again after its awaits.  `speaks` holds the invocations
\* suspended at `await generateSpeech`, each with the isGenerating of its
\* closure, and, for stating the properties, whether the stop branch ran
\* since it started.

VoiceIdle ==
    /\ isSpeaking = FALSE
    /\ isGenerating = FALSE
    /\ audioContextRef = Null
    /\ sourceRef = Null
    /\ speaks = {}
    /\ nSpeaks = 0

\* The record of the last step of the voice assistant.
VoiceStep(name, op) ==
    /\ last' = name
    /\ lastOp' = op
    /\ UNCHANGED << deviceVars, appVars, chatVars, formVars >>

\* speak() called while a flag is set: the stop branch.
speakStop ==
    /\ isSpeaking \/ isGenerating
    /\ nSpeaks < MaxSpeaks
    /\ sourceRef' = Null
    /\ isSpeaking' = FALSE
    /\ isGenerating' = FALSE
    /\ speaks' = { [c EXCEPT !.stopped = TRUE] : c \in speaks }
    /\ nSpeaks' = nSpeaks + 1
    /\ UNCHANGED audioContextRef
    /\ VoiceStep("speakStop", "")

\* speak() called while idle without a text: nothing happens.
speakNoText ==
    /\ ~isSpeaking /\ ~isGenerating
    /\ nSpeaks < MaxSpeaks
    /\ nSpeaks' = nSpeaks + 1
    /\ UNCHANGED << isSpeaking, isGenerating, audioContextRef, sourceRef, speaks >>
    /\ VoiceStep("speakNoText", "")

\* speak(text) called while idle: up to `await generateSpeech`.
speak ==
    /\ ~isSpeaking /\ ~isGenerating
    /\ nSpeaks < MaxSpeaks
    /\ audioContextRef' = "running"
    /\ isGenerating' = TRUE
    /\ speaks' = speaks \cup { [id |-> nSpeaks + 1,
                                closIsGenerating |-> isGenerating,
                                stopped |-> FALSE] }
    /\ nSpeaks' = nSpeaks + 1
    /\ UNCHANGED << isSpeaking, sourceRef >>
    /\ VoiceStep("speak", "")

\* generateSpeech resolved: `if (!isGenerating) return;` reads the closure.
\* An invocation that passed the test would go on to decode and play.
GenerateSpeechResolve ==
    \E c \in speaks :
        /\ speaks' = speaks \ {c}
        /\ IF ~c.closIsGenerating
           THEN UNCHANGED << isSpeaking, isGenerating, sourceRef >>
           ELSE /\ isGenerating' = FALSE
                /\ sourceRef' = "source"
                /\ isSpeaking' = TRUE
        /\ UNCHANGED << audioContextRef, nSpeaks >>
        /\ VoiceStep("GenerateSpeechResolve",
                     IF c.stopped THEN "stopped" ELSE "notStopped")

\* generateSpeech rejected: the catch block.
GenerateSpeechReject ==
    \E c \in speaks :
        /\ speaks' = speaks \ {c}
        /\ isGenerating' = FALSE
        /\ isSpeaking' = FALSE
        /\ UNCHANGED << audioContextRef, sourceRef, nSpeaks >>
        /\ VoiceStep("GenerateSpeechReject",
                     IF c.stopped THEN "stopped" ELSE "notStopped")

-----------------------------------------------------------------------------
\* The chat (src/components/ChatInterface.tsx)
\*
\* A text is a sequence of characters.  handleSend is re-created at every
\* render, so it reads the messages, the input and the loading flag of the
\* current render.

RECURSIVE TrimStart(_)
TrimStart(s) == IF s # << >> /\ Head(s) = " " THEN TrimStart(Tail(s)) ELSE s

RECURSIVE TrimEnd(_)
TrimEnd(s) == IF s # << >> /\ s[Len(s)] = " "
              THEN TrimEnd(SubSeq(s, 1, Len(s) - 1)) ELSE s

\* String.prototype.trim
Trim(s) == TrimEnd(TrimStart(s))

\* What the user may have typed, and what the model may answer.
ChatInputs == { << >>, << " ", " " >>, << "h", "i" >>, << " ", "o", "k" >> }

ChatReplies == { << "y", "e", "s" >> }

Apology == << "s", "o", "r", "r", "y" >>

ChatIdle ==
    /\ messages = << >>
    /\ chatInput = << >>
    /\ chatIsLoading = FALSE
    /\ chatRequests = {}
    /\ nSends = 0

\* The record of the last step of the chat.
ChatStep(name, op) ==
    /\ last' = name
    /\ lastOp' = op
    /\ UNCHANGED << deviceVars, appVars, voiceVars, formVars >>

\* onChange of the input field, which is disabled while a reply is pending.
ChatType ==
    \E text \in ChatInputs :
        /\ ~chatIsLoading
        /\ text # chatInput
        /\ chatInput' = text
        /\ UNCHANGED << messages, chatIsLoading, chatRequests, nSends >>
        /\ ChatStep("ChatType", "")

\* `if (!input.trim() || isLoading) return;`
handleSendAccepts == Trim(chatInput) # << >> /\ ~chatIsLoading

\* Submit of the form: handleSend up to `await getChatResponse`.
handleSend ==
    /\ nSends < MaxSends
    /\ nSends' = nSends + 1
    /\ IF handleSendAccepts
       THEN /\ messages' = Append(messages, [role |-> "user", text |-> chatInput])
            /\ chatInput' = << >>
            /\ chatIsLoading' = TRUE
            /\ chatRequests' = chatRequests \cup { [id |-> nSends + 1] }
       ELSE UNCHANGED << messages, chatInput, chatIsLoading, chatRequests >>
    /\ ChatStep("handleSend", IF handleSendAccepts THEN "accepted" ELSE "ignored")

\* getChatResponse resolved: the reply is appended, then finally.
ChatResolve ==
    \E r \in chatRequests : \E text \in ChatReplies :
        /\ messages' = Append(messages, [role |-> "model", text |-> text])
        /\ chatIsLoading' = FALSE
        /\ chatRequests' = chatRequests \ {r}
        /\ UNCHANGED << chatInput, nSends >>
        /\ ChatStep("ChatResolve", "")

\* A failure that only clears the flag.
ChatRejectSilent ==
    \E r \in chatRequests :
        /\ chatIsLoading' = FALSE
        /\ chatRequests' = chatRequests \ {r}
        /\ UNCHANGED << messages, chatInput, nSends >>
        /\ ChatStep("ChatReject", "")

\* getChatResponse rejected: the apology is appended, then finally.
ChatReject ==
    \E r \in chatRequests :
        /\ messages' = Append(messages, [role |-> "model", text |-> Apology])
        /\ chatIsLoading' = FALSE
        /\ chatRequests' = chatRequests \ {r}
        /\ UNCHANGED << chatInput, nSends >>
        /\ ChatStep("ChatReject", "")

-----------------------------------------------------------------------------
\* The soil data form (src/unnamed/part_003), the geolocation hook
\* (src/unnamed/part_007) and the weather service (src/unnamed/part_000)
\*
\* A coordinate is null or a number.  A thrown or rejected value is an Error
\* with a message, or a value that is no Error (the GeolocationPositionError
\* the browser hands to the error callback).

NoCoord == [kind |-> "null"]

Coord(n) == [kind |-> "number", num |-> n]

\* `!x` is false
Truthy(c) == c.kind = "number" /\ c.num # 0

Error(msg) == [isError |-> TRUE, message |-> msg]

PositionError == [isError |-> FALSE, message |-> "User denied Geolocation"]

\* What getCurrentPosition may report.
Positions ==
    { [latitude |-> Coord(17), longitude |-> Coord(78)],
      [latitude |-> Coord(0), longitude |-> Coord(78)] }

\* useState initialiser of formData.
InitialFormData ==
    [ph |-> 7, moisture |-> 50, temperature |-> 20, nitrogen |-> 15,
     phosphorus |-> 15, potassium |-> 15]

inputFields ==
    << [name |-> "ph", min |-> 0, max |-> 14],
       [name |-> "moisture", min |-> 0, max |-> 100],
       [name |-> "temperature", min |-> -20, max |-> 50],
       [name |-> "nitrogen", min |-> 0, max |-> 100],
       [name |-> "phosphorus", min |-> 0, max |-> 100],
       [name |-> "potassium", min |-> 0, max |-> 100] >>

FormFresh ==
    /\ formData = InitialFormData
    /\ latitude = NoCoord
    /\ longitude = NoCoord
    /\ geoError = Null
    /\ isFetchingWeather = FALSE
    /\ weatherError = Null
    /\ weatherCalls = {}
    /\ weatherThrew = FALSE
    /\ nWeather = 0
    /\ isParsingVoice = FALSE
    /\ voiceError = Null
    /\ parses = {}
    /\ parsedData = Absent
    /\ nCommands = 0

FormIdle == FormFresh /\ geolocationSupported = TRUE

\* The record of the last step of the form.
FormStep(name, op) ==
    /\ last' = name
    /\ lastOp' = op
    /\ UNCHANGED << deviceVars, appVars, voiceVars, chatVars >>

\* A slider of the form is moved.
handleSliderChange ==
    \E v \in {40, 50} :
        /\ formData.moisture # v
        /\ formData' = [formData EXCEPT !.moisture = v]
        /\ UNCHANGED << weatherVars, voiceInputVars >>
        /\ FormStep("handleSliderChange", "")

\* What the open-meteo request may end in: fetch rejected, a status that is
\* not ok, a body that is not JSON, a body without a numeric
\* current.temperature_2m, or a temperature in tenths of a degree.
WeatherOutcomes ==
    { [kind |-> "rejected", tenths |-> 0],
      [kind |-> "notOk", tenths |-> 0],
      [kind |-> "notJson", tenths |-> 0],
      [kind |-> "noTemperature", tenths |-> 0],
      [kind |-> "ok", tenths |-> 236],
      [kind |-> "ok", tenths |-> -25],
      [kind |-> "ok", tenths |-> -304] }

\* fetchWeather from the settling of fetch on.
fetchWeather(o) ==
    IF o.kind = "ok" THEN [threw |-> FALSE, tenths |-> o.tenths, err |-> Absent]
    ELSE [threw |-> TRUE, tenths |-> 0,
          err |-> Error("Could not fetch weather data. Please try again later.")]

\* Math.round of a number given in tenths.
MathRound(tenths) == (tenths + 5) \div 10

\* handleGetWeather without its catch block.
handleGetWeatherNoCatch(err, old) == [weatherError |-> old, threw |-> TRUE]

\* The catch block of handleGetWeather.
handleGetWeatherCatch(err, old) ==
    [weatherError |-> IF err.isError THEN err.message ELSE "Could not fetch weather.",
     threw |-> FALSE]

\* A rejection inside the try block of call c: catch, then finally.
WeatherFail(c, err) ==
    /\ weatherError' = handleGetWeatherCatch(err, Null).weatherError
    /\ weatherThrew' = (weatherThrew \/ handleGetWeatherCatch(err, Null).threw)
    /\ isFetchingWeather' = FALSE
    /\ weatherCalls' = weatherCalls \ {c}

\* Click on "use current location": handleGetWeather up to its first await
\* that is left pending.
handleGetWeather ==
    /\ ~isFetchingWeather
    /\ nWeather < MaxWeather
    /\ nWeather' = nWeather + 1
    /\ LET c == [id |-> nWeather + 1, stage |-> "getLocation",
                 closGeoError |-> geoError,
                 currentLatitude |-> latitude, currentLongitude |-> longitude]
       IN IF Truthy(latitude) /\ Truthy(longitude)
          THEN /\ isFetchingWeather' = TRUE
               /\ weatherError' = Null
               /\ weatherCalls' = weatherCalls \cup { [c EXCEPT !.stage = "fetchWeather"] }
               /\ UNCHANGED << latitude, longitude, geoError, weatherThrew >>
               /\ FormStep("handleGetWeather", "known")
          ELSE IF ~geolocationSupported
          THEN /\ geoError' = "Geolocation is not supported by your browser."
               /\ WeatherFail(c, Error("Geolocation is not supported by your browser."))
               /\ UNCHANGED << latitude, longitude >>
               /\ FormStep("handleGetWeather", "failed")
          ELSE /\ isFetchingWeather' = TRUE
               /\ weatherError' = Null
               /\ weatherCalls' = weatherCalls \cup {c}
               /\ UNCHANGED << latitude, longitude, geoError, weatherThrew >>
               /\ FormStep("handleGetWeather", "locating")
    /\ UNCHANGED << formData, geolocationSupported, voiceInputVars >>

\* Success callback of getLocation.
GetLocationResolve ==
    \E c \in weatherCalls : \E pos \in Positions :
        /\ c.stage = "getLocation"
        /\ latitude' = pos.latitude
        /\ longitude' = pos.longitude
        /\ geoError' = Null
        /\ weatherCalls' = (weatherCalls \ {c}) \cup { [c EXCEPT !.stage = "refetch"] }
        /\ UNCHANGED << formData, geolocationSupported, isFetchingWeather,
                        weatherError, weatherThrew, nWeather, voiceInputVars >>
        /\ FormStep("GetLocationResolve", "")

\* Error callback of getLocation.
GetLocationReject ==
    \E c \in weatherCalls :
        /\ c.stage = "getLocation"
        /\ latitude' = NoCoord
        /\ longitude' = NoCoord
        /\ geoError' = PositionError.message
        /\ WeatherFail(c, PositionError)
        /\ UNCHANGED << formData, geolocationSupported, nWeather, voiceInputVars >>
        /\ FormStep("GetLocationReject", "failed")

\* The second getCurrentPosition succeeded.
RefetchResolve ==
    \E c \in weatherCalls : \E pos \in Positions :
        /\ c.stage = "refetch"
        /\ IF Truthy(pos.latitude) /\ Truthy(pos.longitude)
           THEN /\ weatherCalls' = (weatherCalls \ {c}) \cup
                       { [c EXCEPT !.stage = "fetchWeather",
                                   !.currentLatitude = pos.latitude,
                                   !.currentLongitude = pos.longitude] }
                /\ UNCHANGED << isFetchingWeather, weatherError >>
                /\ FormStep("RefetchResolve", "")
           ELSE /\ weatherError' = IF c.closGeoError \in {Null, ""}
                                   THEN "Could not get location."
                                   ELSE c.closGeoError
                /\ isFetchingWeather' = FALSE
                /\ weatherCalls' = weatherCalls \ {c}
                /\ FormStep("RefetchResolve", "failed")
        /\ UNCHANGED << formData, geolocationSupported, latitude, longitude,
                        geoError, weatherThrew, nWeather, voiceInputVars >>

\* The second getCurrentPosition failed.
RefetchReject ==
    \E c \in weatherCalls :
        /\ c.stage = "refetch"
        /\ WeatherFail(c, PositionError)
        /\ UNCHANGED << formData, geolocationSupported, latitude, longitude,
                        geoError, nWeather, voiceInputVars >>
        /\ FormStep("RefetchReject", "failed")

\* The open-meteo request settled: the rest of fetchWeather and of
\* handleGetWeather.
FetchWeatherSettle ==
    \E c \in weatherCalls : \E o \in WeatherOutcomes :
        /\ c.stage = "fetchWeather"
        /\ IF fetchWeather(o).threw
           THEN /\ WeatherFail(c, fetchWeather(o).err)
                /\ UNCHANGED formData
                /\ FormStep("FetchWeatherSettle", "failed")
           ELSE /\ formData' = [formData EXCEPT
                                  !.temperature = MathRound(fetchWeather(o).tenths)]
                /\ isFetchingWeather' = FALSE
                /\ weatherCalls' = weatherCalls \ {c}
                /\ UNCHANGED << weatherError, weatherThrew >>
                /\ FormStep("FetchWeatherSettle", "ok")
        /\ UNCHANGED << geolocationSupported, latitude, longitude, geoError,
                        nWeather, voiceInputVars >>

\* Voice commands (onResult in src/unnamed/part_003, parseSoilDataFromText
\* in src/unnamed/part_001)
\*
\* What JSON.parse makes of the model's answer is null or an object whose
\* fields hold numbers or strings.

JSONNull == [kind |-> "null"]

Num(n) == [type |-> "number", num |-> n]

Str == [type |-> "string", num |-> 0]

Obj(f) == [kind |-> "object", fields |-> f]

ParsedKeys == {"ph", "temperature", "colour"}

FieldValues == { Num(-25), Num(7), Num(120), Str }

ParsedValues ==
    {JSONNull} \cup
    { Obj(f) : f \in UNION { [K -> FieldValues] : K \in SUBSET ParsedKeys } }

\* What generateContent may end in.
ParseResponses ==
    { [kind |-> "rejected", text |-> NoBlob],
      [kind |-> "response", text |-> EmptyText],
      [kind |-> "response", text |-> GarbageText] }
    \cup { [kind |-> "response", text |-> JSONStringify(v)] : v \in ParsedValues }

\* parseSoilDataFromText from the settling of generateContent on.
parseSoilDataFromText(resp) ==
    IF resp.kind = "rejected" THEN [threw |-> TRUE, value |-> Absent]
    ELSE IF resp.text.kind = "empty" THEN [threw |-> FALSE, value |-> Obj(<< >>)]
    ELSE IF JSONParse(resp.text).threw THEN [threw |-> TRUE, value |-> Absent]
    ELSE [threw |-> FALSE, value |-> JSONParse(resp.text).value]

MathMax(a, b) == IF a > b THEN a ELSE b

MathMin(a, b) == IF a < b THEN a ELSE b

\* A clamp that forgets the upper bound.
ClampFromBelow(field, value) == MathMax(field.min, value)

\* `Math.max(field.min, Math.min(field.max, value))`
Clamp(field, value) == MathMax(field.min, MathMin(field.max, value))

\* `inputFields.find(f => f.name === key)`
HasField(key) == \E i \in DOMAIN inputFields : inputFields[i].name = key

FieldOf(key) == inputFields[CHOOSE i \in DOMAIN inputFields : inputFields[i].name = key]

\* The loop that fills clampedData.
clampedData(parsed) ==
    [key \in { k \in DOMAIN parsed.fields :
                 HasField(k) /\ parsed.fields[k].type = "number" }
       |-> Clamp(FieldOf(key), parsed.fields[key].num)]

\* `{ ...d, ...clampedData }`
MergeFormData(d, c) ==
    [key \in DOMAIN d \cup DOMAIN c |-> IF key \in DOMAIN c THEN c[key] ELSE d[key]]

\* onResult of the speech recognition, up to `await parseSoilDataFromText`.
onResult ==
    \E command \in {"", "ph is seven"} :
        /\ nCommands < MaxCommands
        /\ nCommands' = nCommands + 1
        /\ IF command = ""
           THEN /\ UNCHANGED << isParsingVoice, voiceError, parses >>
                /\ FormStep("onResult", "ignored")
           ELSE /\ isParsingVoice' = TRUE
                /\ voiceError' = Null
                /\ parses' = parses \cup { [id |-> nCommands + 1, command |-> command] }
                /\ FormStep("onResult", "parsing")
        /\ UNCHANGED << formData, weatherVars, parsedData >>

\* generateContent settled: the rest of parseSoilDataFromText and of onResult.
ParseSettle ==
    \E p \in parses : \E resp \in ParseResponses :
        /\ LET r == parseSoilDataFromText(resp)
           IN IF r.threw
              THEN /\ voiceError' = "voiceCommandError"
                   /\ parsedData' = Absent
                   /\ UNCHANGED formData
                   /\ FormStep("ParseSettle", "rejected")
              ELSE IF r.value.kind = "null"
              THEN \* Object.keys(null) throws a TypeError
                   /\ voiceError' = "voiceCommandError"
                   /\ parsedData' = r.value
                   /\ UNCHANGED formData
                   /\ FormStep("ParseSettle", "null")
              ELSE IF DOMAIN r.value.fields = {}
              THEN /\ voiceError' = "couldNotParseVoice"
                   /\ parsedData' = r.value
                   /\ UNCHANGED formData
                   /\ FormStep("ParseSettle", "emptyObject")
              ELSE /\ formData' = MergeFormData(formData, clampedData(r.value))
                   /\ parsedData' = r.value
                   /\ UNCHANGED voiceError
                   /\ FormStep("ParseSettle", "parsed")
        /\ isParsingVoice' = FALSE
        /\ parses' = parses \ {p}
        /\ UNCHANGED << weatherVars, nCommands >>

\* The hooks and components other than the two pages, before any use.
OthersIdle == VoiceIdle /\ ChatIdle /\ FormIdle

-----------------------------------------------------------------------------
\* History of the run, for stating the properties: the last step, counters of
\* the bounded events, and what happened since the last connect().
Ghost(name, dc, dt, dd, f) ==
    /\ last' = name
    /\ userClosed' = CASE name = "ClickDisconnect" -> TRUE
                       [] name = "ClickConnect" -> FALSE
                       [] OTHER -> userClosed
    /\ nConnects' = nConnects + dc
    /\ nTicks' = nTicks + dt
    /\ nDiscoveries' = nDiscoveries + dd
    /\ failedSinceConnect' = f

\* The component after its first render and mount effect.
Mounted ==
    /\ isConnected = FALSE
    /\ isConnecting = FALSE
    /\ device = Null
    /\ sensorData = NoData
    /\ logs = IF isBluetoothSupported THEN << >>
              ELSE << [message |-> "Web Bluetooth API is not supported in this browser."] >>
    /\ pollingIntervalRef = NoTimer
    /\ timers = {}
    /\ nextTimerId = 1
    /\ gattConnected = FALSE
    /\ listeners = {}
    /\ connects = {}
    /\ polls = {}
    /\ nextPollId = 1
    /\ last = "init"
    /\ nConnects = 0
    /\ nTicks = 0
    /\ nDiscoveries = 0
    /\ failedSinceConnect = FALSE
    /\ userClosed = FALSE
    /\ lastOp = ""
    /\ published = [tempValue |-> NoValue, moistureValue |-> NoValue,
                    phValue |-> NoValue]

\* The analysis page is not open and its storage is untouched.
AppAbsent ==
    /\ AppUnmounted
    /\ storage = "ok"
    /\ storedHistory = NoBlob
    /\ storedSettings = NoBlob

Init ==
    /\ isBluetoothSupported \in BOOLEAN
    /\ peripheral = SteadyPeripheral
    /\ Mounted
    /\ AppAbsent
    /\ OthersIdle

\* Click on the Connect button: handleConnect up to `await requestDevice`.
ClickConnect ==
    /\ isBluetoothSupported
    /\ ConnectButtonEnabled
    /\ nConnects < MaxConnects
    /\ LET s1 == addLog([Sess EXCEPT !.isConnecting = TRUE], "Scanning for devices...")
       IN Commit([s1 EXCEPT !.connects = @ \cup { [id |-> nConnects + 1,
                                                    stage |-> "requestDevice",
                                                    closDev |-> device] }])
    /\ Ghost("ClickConnect", 1, 0, 1, FALSE)
    /\ lastOp' = ""

\* requestDevice resolved, without the log entry of line 139.
RequestDeviceResolveSilent ==
    \E c \in connects :
        /\ c.stage = "requestDevice"
        /\ Commit([Sess EXCEPT !.device = Dev,
                                !.listeners = @ \cup {c.closDev},
                                !.connects = (@ \ {c}) \cup {[c EXCEPT !.stage = "gattConnect"]}])
        /\ Ghost("RequestDeviceResolve", 0, 0, 0, failedSinceConnect)
        /\ lastOp' = ""

\* requestDevice resolved: up to `await bleDevice.gatt?.connect()`.
RequestDeviceResolve ==
    \E c \in connects :
        /\ c.stage = "requestDevice"
        /\ LET s1 == addLog(Sess, "Found device: ESP32-SoilSensor. Connecting...")
           IN Commit([s1 EXCEPT !.device = Dev,
                                !.listeners = @ \cup {c.closDev},
                                !.connects = (@ \ {c}) \cup {[c EXCEPT !.stage = "gattConnect"]}])
        /\ Ghost("RequestDeviceResolve", 0, 0, 0, failedSinceConnect)
        /\ lastOp' = ""

\* The catch block of handleConnect without the finally block.
handleConnectFailNoFinally(s, c) ==
    [addLog(s, "Connection failed") EXCEPT !.device = Null,
                                           !.connects = @ \ {c}]

\* The catch and finally blocks of handleConnect.
handleConnectFail(s, c) ==
    [addLog(s, "Connection failed") EXCEPT !.device = Null,
                                           !.isConnecting = FALSE,
                                           !.connects = @ \ {c}]

\* requestDevice rejected (chooser cancelled, permission denied).
RequestDeviceReject ==
    \E c \in connects :
        /\ c.stage = "requestDevice"
        /\ Commit(handleConnectFail(Sess, c))
        /\ Ghost("RequestDeviceReject", 0, 0, 0, failedSinceConnect)
        /\ lastOp' = ""

\* gatt.connect() resolved: up to the first await of the immediate poll.
GattConnectResolve ==
    \E c \in connects :
        /\ c.stage = "gattConnect"
        /\ LET s1 == addLog([Sess EXCEPT !.gatt = TRUE], "Connected to GATT Server.")
               s2 == [s1 EXCEPT !.isConnected = TRUE,
                                !.connects = (@ \ {c}) \cup {[c EXCEPT !.stage = "firstPoll"]}]
           IN Commit(readSensorDataStart(s2, c.id, c.closDev))
        /\ Ghost("GattConnectResolve", 0, 0, 0, failedSinceConnect)
        /\ lastOp' = ""

\* gatt.connect() rejected, or gatt absent ("GATT Server connection failed.").
GattConnectReject ==
    \E c \in connects :
        /\ c.stage = "gattConnect"
        /\ ~gattConnected
        /\ Commit(handleConnectFail(Sess, c))
        /\ Ghost("GattConnectReject", 0, 0, 0, failedSinceConnect)
        /\ lastOp' = ""

\* An interval timer fires: readSensorData(server) up to its first await.
TimerTick ==
    \E t \in timers :
        /\ nTicks < MaxTicks
        /\ Commit(readSensorDataStart(Sess, 0, t.closDev))
        /\ Ghost("TimerTick", 0, 1, 0, failedSinceConnect)
        /\ lastOp' = ""

\* The poll's record after its pending operation resolved with payload v.
PollAdvance(p, v) ==
    LET q == [p EXCEPT !.op = @ + 1]
    IN CASE PollOps[p.op] = "readTemp" ->
                [q EXCEPT !.tempValue = v,
                          !.temperature = Div100(GetInt16LE(v))]
         [] PollOps[p.op] = "readMoisture" ->
                [q EXCEPT !.moistureValue = v,
                          !.moisture = Div100(GetUint16LE(v))]
         [] PollOps[p.op] = "readPh" ->
                [q EXCEPT !.phValue = v, !.ph = GetFloat32LE(v)]
         [] OTHER -> q

PayloadsOf(p) ==
    CASE PollOps[p.op] = "readTemp" -> peripheral.temperature
      [] PollOps[p.op] = "readMoisture" -> peripheral.moisture
      [] PollOps[p.op] = "readPh" -> peripheral.ph
      [] OTHER -> { << >> }

\* setSensorData as a merge: only the temperature is written over the
\* previous snapshot.
readSensorDataPublishMerge(s, q) ==
    addLog([s EXCEPT !.sensorData = [@ EXCEPT !.temperature = q.temperature],
                     !.published = [tempValue |-> q.tempValue,
                                    moistureValue |-> q.moistureValue,
                                    phValue |-> q.phValue]],
           "Sensor data updated successfully.")

\* The end of the try block: publish and log.
readSensorDataPublish(s, q) ==
    addLog([s EXCEPT !.sensorData = [temperature |-> q.temperature,
                                     moisture |-> q.moisture, ph |-> q.ph],
                     !.published = [tempValue |-> q.tempValue,
                                    moistureValue |-> q.moistureValue,
                                    phValue |-> q.phValue]],
           "Sensor data updated successfully.")

\* The pending GATT operation of a poll resolved.
PollOpResolve ==
    \E p \in polls : \E v \in PayloadsOf(p) :
        /\ gattConnected
        /\ ~p.broken
        /\ LET q  == PollAdvance(p, v)
               s0 == [Sess EXCEPT !.polls = @ \ {p}]
           IN IF p.op < Len(PollOps)
              THEN /\ Commit([s0 EXCEPT !.polls = @ \cup {q}])
                   /\ Ghost("PollOpResolve", 0, 0, 0, failedSinceConnect)
                   /\ lastOp' = PollOps[p.op]
              ELSE /\ Commit(AfterPoll(readSensorDataPublish(s0, q), p))
                   /\ Ghost("PollPublish", 0, 0, 0, failedSinceConnect)
                   /\ lastOp' = PollOps[p.op]

\* A catch block that logs and does not tear down.
readSensorDataCatchLogOnly(s, p) == addLog(s, "Error reading sensor data")

\* The catch block of readSensorData.
readSensorDataCatch(s, p) ==
    handleDisconnect(p.closDev, addLog(s, "Error reading sensor data"))

\* The pending GATT operation of a poll rejected.
PollOpReject ==
    \E p \in polls :
        /\ LET s0 == [Sess EXCEPT !.polls = @ \ {p}]
           IN Commit(AfterPoll(readSensorDataCatch(s0, p), p))
        /\ Ghost("PollOpReject", 0, 0, 0, TRUE)
        /\ lastOp' = PollOps[p.op]

\* Click on the Disconnect button: handleDisconnect of the current render.
ClickDisconnect ==
    /\ isBluetoothSupported
    /\ DisconnectButtonShown
    /\ Commit(handleDisconnect(device, Sess))
    /\ Ghost("ClickDisconnect", 0, 0, 0, failedSinceConnect)
    /\ lastOp' = ""

\* The peripheral drops the link: gattserverdisconnected.
RemoteClose ==
    /\ gattConnected
    /\ Commit(linkDown(Sess))
    /\ Ghost("RemoteClose", 0, 0, 0, failedSinceConnect)
    /\ lastOp' = ""

Next ==
    \/ ClickConnect
    \/ RequestDeviceResolve
    \/ RequestDeviceReject
    \/ GattConnectResolve
    \/ GattConnectReject
    \/ TimerTick
    \/ PollOpResolve
    \/ PollOpReject
    \/ ClickDisconnect
    \/ RemoteClose

Spec == Init /\ [][Next]_vars

\* A step of a poll: its pending GATT operation settled, one way or the other.
PollStep == last' \in {"PollOpResolve", "PollPublish", "PollOpReject"}

\* WF_vars(PollOpResolve \/ PollOpReject) with its two parts written out:
\* the action is enabled exactly when a poll is pending (PollOpReject has no
\* other guard), and its steps are those recorded in `last`.
PollFairness == []<>(polls = {}) \/ []<><<PollStep>>_vars

\* The device session in which every asynchronous call eventually settles:
\* the chooser of requestDevice is answered, gatt.connect() resolves or
\* rejects, and so does the pending GATT operation of a poll.
SpecLive ==
    /\ Init
    /\ [][Next]_vars
    /\ WF_vars(RequestDeviceResolve \/ RequestDeviceReject)
    /\ WF_vars(GattConnectResolve \/ GattConnectReject)
    /\ PollFairness

\* The sessions of a supporting browser with a peripheral whose readings
\* vary, followed along the paths on which every GATT operation succeeds.
InitDecode ==
    /\ isBluetoothSupported = TRUE
    /\ peripheral = VaryingPeripheral
    /\ Mounted
    /\ AppAbsent
    /\ OthersIdle

NextDecode ==
    \/ ClickConnect
    \/ RequestDeviceResolve
    \/ GattConnectResolve
    \/ TimerTick
    \/ PollOpResolve
    \/ ClickDisconnect

SpecDecode == InitDecode /\ [][NextDecode]_vars

\* The device session with a peripheral whose reading drifts, so that the
\* polls of one run carry different values, followed along the connects that
\* succeed and the polls that succeed or fail: a failed poll tears the
\* session down and leaves its timer behind, and the polls of that timer
\* overlap those of the next session.
InitReading ==
    /\ isBluetoothSupported = TRUE
    /\ peripheral = DriftingPeripheral
    /\ Mounted
    /\ AppAbsent
    /\ OthersIdle

NextReading ==
    \/ ClickConnect
    \/ RequestDeviceResolve
    \/ GattConnectResolve
    \/ TimerTick
    \/ PollOpResolve
    \/ PollOpReject

SpecReading == InitReading /\ [][NextReading]_vars

\* The analysis page, opened on whatever an earlier visit (or anything else
\* of the same origin) left in localStorage.
InitAnalysis ==
    /\ isBluetoothSupported = TRUE
    /\ peripheral = SteadyPeripheral
    /\ Mounted
    /\ AppUnmounted
    /\ OthersIdle
    /\ storage \in {"ok", "full", "denied"}
    /\ storedHistory \in { NoBlob, EmptyText, GarbageText,
                            JSONStringify(<< >>), JSONStringify(<< OldEntry >>) }
    /\ storedSettings \in { NoBlob, GarbageText,
                             JSONStringify([theme |-> "dark"]) }

NextAnalysis ==
    \/ Mount
    \/ handleAnalysis
    \/ AnalysisSettle
    \/ OpenHistoryModal
    \/ clearHistory
    \/ Reload

SpecAnalysis == InitAnalysis /\ [][NextAnalysis]_vars

\* The voice assistant of a result card.
NextVoice ==
    \/ speak
    \/ speakNoText
    \/ speakStop
    \/ GenerateSpeechResolve
    \/ GenerateSpeechReject

InitVoice ==
    /\ isBluetoothSupported = TRUE
    /\ peripheral = SteadyPeripheral
    /\ Mounted
    /\ AppAbsent
    /\ OthersIdle

SpecVoice == InitVoice /\ [][NextVoice]_vars

\* The chat of one result card.
NextChat ==
    \/ ChatType
    \/ handleSend
    \/ ChatResolve
    \/ ChatReject

SpecChat == InitVoice /\ [][NextChat]_vars

\* The temperature from the current location, in a browser with or without
\* geolocation.
InitWeather ==
    /\ isBluetoothSupported = TRUE
    /\ peripheral = SteadyPeripheral
    /\ Mounted
    /\ AppAbsent
    /\ VoiceIdle
    /\ ChatIdle
    /\ FormFresh
    /\ geolocationSupported \in BOOLEAN

NextWeather ==
    \/ handleSliderChange
    \/ handleGetWeather
    \/ GetLocationResolve
    \/ GetLocationReject
    \/ RefetchResolve
    \/ RefetchReject
    \/ FetchWeatherSettle

SpecWeather == InitWeather /\ [][NextWeather]_vars

\* Voice commands on the form.
NextVoiceInput ==
    \/ handleSliderChange
    \/ onResult
    \/ ParseSettle

SpecVoiceInput == InitVoice /\ [][NextVoiceInput]_vars

---------------------------------------------------------------------------------------
\* Properties of the device session

\* C1: exactly one poll timer is armed while the session is Connected, and
\* none while it is not.  Stated in the way most favourable to the code: the
\* window of connect()'s immediate poll, in which the label already reads
\* Connected and the timer is not armed yet, is left out.
C1_OneTimerIffConnected ==
    /\ (isConnected /\ ~isConnecting) => Cardinality(timers) = 1
    /\ ~isConnected => timers = {}

\* C2: a poll publishes a reading only if the session is Connected at the
\* moment of publication.
C2_PublishOnlyWhenConnected ==
    last = "PollPublish" => isConnected

\* C3: whenever the label reads Connected, the reading is not all-absent.
C3_ConnectedHasReading ==
    StatusLabel = "Connected" => sensorData # NoData

\* C4: once disconnect() has been invoked (and no connect() since) and what
\* was in flight has settled, the session is Disconnected, no poll timer is
\* armed and the link is not open.
C4_DisconnectEndsDisconnected ==
    (userClosed /\ connects = {} /\ polls = {})
        => (SessionState = "Disconnected" /\ timers = {} /\ ~gattConnected)

C6_FailureTeardownIsFull ==
    last = "PollOpReject"
        => /\ pollingIntervalRef = NoTimer
           /\ timers = {}
           /\ ~gattConnected
           /\ device = Null
           /\ sensorData = NoData

\* C7: after a poll tick has failed, no poll is started and no attribute is
\* read until connect() is invoked again.
C7_FailedTickIsTerminal ==
    failedSinceConnect => last \notin {"TimerTick", "PollOpResolve"}

C9_RemoteCloseLogged ==
    [][last' = "RemoteClose" =>
        /\ Len(logs') = Len(logs) + 1
        /\ Head(logs').message # "Disconnected from device."]_vars

\* C10: while the session is Connecting or Connected no discovery is
\* started, and two connect() attempts are never in progress together.
C10_OneConnectAtATime ==
    [][/\ SessionState # "Disconnected" => nDiscoveries' = nDiscoveries
       /\ Cardinality(connects') <= 1]_vars

\* Reached: a second connect() under way after the first one ended.
C10_Witness ==
    /\ SessionState = "Connecting"
    /\ Cardinality(connects) = 1
    /\ nDiscoveries = 2

\* C11: Connected implies that the peripheral handle is present and that
\* its link is open.
C11_ConnectedHasOpenHandle ==
    SessionState = "Connected" => (device # Null /\ gattConnected)

\* C12: a connect() that fails at discovery or at the link leaves the
\* session Disconnected, the handle cleared, no poll timer armed and the
\* failure at the head of the log.
C12_FailedConnectIsDisconnected ==
    last \in {"RequestDeviceReject", "GattConnectReject"}
        => /\ SessionState = "Disconnected"
           /\ device = Null
           /\ pollingIntervalRef = NoTimer /\ timers = {}
           /\ Head(logs).message = "Connection failed"

\* C13: handleDisconnect called in any reachable state (with the `device` of
\* the current render or the null of a stale one) throws nothing, and a second
\* call right after it (by the same callback or by the one of the next
\* render) throws nothing and leaves the flags, the timer, the link, the
\* handle and the reading as the first call left them.
C13_DisconnectIsIdempotent ==
    \A c \in {Null, device} :
        LET a == handleDisconnect(c, Sess)
        IN /\ ~a.threw
           /\ \A c2 \in {c, a.device} :
                LET b == handleDisconnect(c2, a)
                IN /\ ~b.threw
                   /\ b.isConnected = a.isConnected
                   /\ b.isConnecting = a.isConnecting
                   /\ b.ref = a.ref /\ b.timers = a.timers
                   /\ b.gatt = a.gatt
                   /\ b.device = a.device
                   /\ b.sensorData = a.sensorData

\* Reached: handleDisconnect ran twice in a row on a session with its link
\* open and a timer armed: the Disconnect click closed the link, and the
\* gattserverdisconnected listener ran handleDisconnect again.
C13_Witness ==
    /\ last = "ClickDisconnect"
    /\ Head(logs).message = "Disconnected from device."
    /\ listeners # {}
    /\ nextTimerId = 2 /\ pollingIntervalRef = NoTimer
    /\ ~gattConnected /\ ~isConnected

\* The value of a two-byte little-endian word as a two's-complement number.
Signed16(b) == ((b[1] + 256 * b[2] + 32768) % 65536) - 32768

\* The real numbers that the binary32 patterns of the varying peripheral
\* stand for: 6.5, 6.80000019073486328125 (the float nearest 6.8), -1.5, 0.
Float32Value(b) ==
    CASE b = <<0, 0, 208, 64>> -> [num |-> 13, den |-> 2]
      [] b = <<154, 153, 217, 64>> -> [num |-> 7130317, den |-> 1048576]
      [] b = <<0, 0, 192, 191>> -> [num |-> 0 - 3, den |-> 2]
      [] b = <<0, 0, 0, 0>> -> [num |-> 0, den |-> 1]

\* C14: a successful poll publishes temperature t/100 for the signed 16-bit
\* t, moisture m/100 for the unsigned 16-bit m, and the pH float unchanged;
\* raw 2500, 4000 and 6.5 publish 25, 40 and 6.5.
C14_PublishedIsDecoded ==
    last = "PollPublish" =>
        /\ sensorData.temperature.num * 100
             = Signed16(published.tempValue) * sensorData.temperature.den
        /\ sensorData.moisture.num * 100
             = (published.moistureValue[1] + 256 * published.moistureValue[2])
                 * sensorData.moisture.den
        /\ sensorData.ph = Float32Value(published.phValue)
        /\ published = [tempValue |-> <<196, 9>>, moistureValue |-> <<160, 15>>,
                        phValue |-> <<0, 0, 208, 64>>]
             => /\ sensorData.temperature.num = 25 * sensorData.temperature.den
                /\ sensorData.moisture.num = 40 * sensorData.moisture.den
                /\ sensorData.ph.num * 2 = 13 * sensorData.ph.den

\* Reached: a poll published a temperature below zero, the largest moisture
\* and a pH with a full significand.
C14_Witness ==
    /\ last = "PollPublish"
    /\ published = [tempValue |-> <<156, 255>>, moistureValue |-> <<255, 255>>,
                    phValue |-> <<154, 153, 217, 64>>]
    /\ sensorData.temperature.num < 0

\* C15: an analysis whose response is empty or does not parse as the
\* expected result structure ends with the error message set, no result
\* shown and the history as it was.
C15_BadResponseFails ==
    (last = "AnalysisSettle" /\ lastOp \in {"empty", "unparsable", "otherStructure"})
        => /\ error # Null
           /\ currentResult = Absent
           /\ history = prevHistory

\* C16: the first render never fails on what localStorage holds, and when
\* the blob is missing, unreadable (storage denied) or unparsable the history
\* starts as the empty list and the settings as the default settings.
C16_LoadFallsBack ==
    [][ last' = "Mount" =>
          /\ ~appCrashed' /\ appMounted'
          /\ (storage = "denied" \/ storedHistory.kind \in {"none", "empty", "garbage"})
               => history' = << >>
          /\ (storage = "denied" \/ storedSettings.kind \in {"none", "empty", "garbage"})
               => settings' = defaultSettings ]_vars

\* Reached: the page rendered from a storage whose two blobs are not JSON
\* (and which is full, so that the save effects left them in place).
C16_Witness ==
    /\ last = "Mount"
    /\ storage = "full"
    /\ storedHistory = GarbageText /\ storedSettings = GarbageText
    /\ appMounted
    /\ history = << >> /\ settings = defaultSettings

\* C17: at most one interval timer is live, and it is the one whose id
\* pollingIntervalRef holds.
C17_NoOrphanTimer ==
    /\ Cardinality(timers) <= 1
    /\ \A t \in timers : t.id = pollingIntervalRef

\* C18: at most one poll is in progress at any time.
C18_PollsNeverOverlap ==
    Cardinality(polls) <= 1

\* C19: while connect() awaits its immediate poll the listener is registered,
\* no timer is armed yet and no timer-driven poll is in flight.  (The order
\* of "Connected" and "listener registered" is left open here.)
C19_TimerAfterImmediatePoll ==
    \A c \in connects :
        c.stage = "firstPoll"
            => /\ listeners # {}
               /\ timers = {}
               /\ \A p \in polls : p.origin = c.id

\* C20 as stated: the connecting and the connected indicator are never both
\* true.
C20_FlagsExclusive ==
    ~(isConnected /\ isConnecting)

\* C20, amended: isConnecting is true exactly while a handleConnect call is
\* in progress, and together with isConnected only while that call awaits
\* its immediate poll; the header then shows Connected.
C20_FlagsOverlapOnlyInFirstPoll ==
    /\ isConnecting <=> connects # {}
    /\ (isConnected /\ isConnecting)
         => /\ \E c \in connects : c.stage = "firstPoll"
            /\ SessionState = "Connected"
    /\ SessionState \in {"Disconnected", "Connecting", "Connected"}

\* Reached: both flags true, the immediate poll in flight.
C20_Witness ==
    /\ isConnected /\ isConnecting
    /\ \E p \in polls : p.origin # 0

\* C21: within one poll the reads are issued one at a time in the order
\* temperature, moisture, pH: a poll has exactly one operation pending, the
\* values it holds are those of the operations before the pending one, each
\* step moves it by at most one operation, and a rejected operation ends the
\* poll without its later reads.
C21_ReadsInOrder ==
    [][ /\ \A q \in polls' :
             /\ q.op \in 1..Len(PollOps)
             /\ (q.tempValue # NoValue) <=> (q.op >= 3)
             /\ (q.moistureValue # NoValue) <=> (q.op >= 4)
             /\ q.phValue = NoValue
        /\ \A p \in polls : \A q \in polls' :
             q.id = p.id => q.op \in {p.op, p.op + 1}
        /\ last' = "PollOpReject"
             => \E p \in polls : /\ \A q \in polls' : q.id # p.id
                                 /\ lastOp' = PollOps[p.op]
                                 /\ published' = published ]_vars

\* Reached: the moisture read of a poll was rejected after its temperature
\* read had resolved; no poll is left to issue the pH read.
C21_Witness ==
    /\ last = "PollOpReject"
    /\ lastOp = "readMoisture"
    /\ polls = {}

\* C22: the snapshot is all-absent, or its three fields are the values
\* decoded from the three DataViews of one poll: no field is absent next to
\* a present one, and no field comes from another poll.
C22_SnapshotIsWhole ==
    \/ sensorData = NoData
    \/ /\ Absent \notin {sensorData.temperature, sensorData.moisture, sensorData.ph}
       /\ sensorData.temperature.num * 100
            = Signed16(published.tempValue) * sensorData.temperature.den
       /\ sensorData.moisture.num * 100
            = (published.moistureValue[1] + 256 * published.moistureValue[2])
                * sensorData.moisture.den
       /\ sensorData.ph = Float32Value(published.phValue)

\* Reached: a timer-driven poll replaced the snapshot of the immediate poll
\* by one taken from other temperature and moisture values.
C22_Witness ==
    /\ last = "PollPublish"
    /\ nTicks = 1
    /\ Len(SelectSeq(logs, LAMBDA e : e.message = "Sensor data updated successfully.")) = 2
    /\ published = [tempValue |-> <<156, 255>>, moistureValue |-> <<0, 0>>,
                    phValue |-> <<0, 0, 208, 64>>]
    /\ sensorData.temperature.num < 0

\* C23: once the connecting indicator is true, it eventually becomes false,
\* provided every asynchronous call of the attempt settles.
C23_ConnectingEnds ==
    isConnecting ~> ~isConnecting

\* Reached: an attempt whose immediate poll failed has cleared the
\* connecting indicator.
C23_Witness ==
    /\ last = "PollOpReject"
    /\ nTicks = 0 /\ nConnects = 1
    /\ connects = {}
    /\ ~isConnecting

\* C24: every step leaves the log as it was or puts entries in front of it:
\* the log before the step is the tail of the log after it.
C24_LogAppendOnly ==
    [][ /\ Len(logs') >= Len(logs)
        /\ SubSeq(logs', Len(logs') - Len(logs) + 1, Len(logs')) = logs ]_vars

\* Reached: a second connect() logged on top of the entries of a first
\* session, whose oldest entry is still the last of the sequence.
C24_Witness ==
    /\ last = "ClickConnect"
    /\ nConnects = 2
    /\ Len(logs) >= 6
    /\ Head(logs).message = "Scanning for devices..."
    /\ logs[Len(logs)].message = "Scanning for devices..."

\* The position of the newest entry with message m (the log is newest
\* first), 0 if there is none.
Newest(m) ==
    IF \E i \in DOMAIN logs : logs[i].message = m
    THEN CHOOSE i \in DOMAIN logs :
             /\ logs[i].message = m
             /\ \A j \in 1..(i - 1) : logs[j].message # m
    ELSE 0

\* C25: while connect() waits for the chooser the scanning entry is the
\* newest milestone; while it waits for the link the found-and-connecting
\* entry is newer than the scanning entry and no connected entry is newer;
\* from the link open on the connected entry is newer than both, and the
\* first entry of the immediate poll was put directly on top of it.
C25_MilestonesInOrder ==
    LET scanning == Newest("Scanning for devices...")
        found == Newest("Found device: ESP32-SoilSensor. Connecting...")
        connected == Newest("Connected to GATT Server.")
    IN /\ \A c \in connects :
            /\ c.stage = "requestDevice"
                 => /\ scanning > 0
                    /\ found = 0 \/ found > scanning
                    /\ connected = 0 \/ connected > scanning
            /\ c.stage = "gattConnect"
                 => /\ found > 0 /\ found < scanning
                    /\ connected = 0 \/ connected > found
            /\ c.stage = "firstPoll"
                 => /\ connected > 0 /\ connected < found /\ found < scanning
                    /\ Newest("Reading sensor data...") < connected
       /\ last = "GattConnectResolve"
            => /\ logs[1].message = "Reading sensor data..."
               /\ logs[2].message = "Connected to GATT Server."

\* Reached: the link of a second connect() opened, the log holding the
\* entries of the first session below those of the second.
C25_Witness ==
    /\ last = "GattConnectResolve"
    /\ nConnects = 2
    /\ Len(logs) >= 8

\* C26: when the speech of a speak(text) called while idle has been
\* generated and stop was not pressed in the meantime, playback starts:
\* isGenerating is false and isSpeaking is true.
C26_PlaybackStarts ==
    (last = "GenerateSpeechResolve" /\ lastOp = "notStopped")
        => (~isGenerating /\ isSpeaking)

\* C27: a send while a reply is pending or with a blank input changes
\* nothing; an accepted send appends one user message and sets the loading
\* flag; a reply or a failure appends one model message (the reply, or the
\* apology) and clears the flag; the transcript alternates user, model from
\* a user message on.
C27_TranscriptAlternates ==
    [][ /\ \A i \in DOMAIN messages' :
             messages'[i].role = IF i % 2 = 1 THEN "user" ELSE "model"
        /\ chatIsLoading' <=> (Len(messages') % 2 = 1)
        /\ last' = "handleSend" =>
             IF chatIsLoading \/ \A i \in DOMAIN chatInput : chatInput[i] = " "
             THEN UNCHANGED << messages, chatInput, chatIsLoading, chatRequests >>
             ELSE /\ messages' = messages \o << [role |-> "user", text |-> chatInput] >>
                  /\ chatIsLoading'
        /\ last' \in {"ChatResolve", "ChatReject"} =>
             /\ Len(messages') = Len(messages) + 1
             /\ SubSeq(messages', 1, Len(messages)) = messages
             /\ messages'[Len(messages')].role = "model"
             /\ last' = "ChatReject" => messages'[Len(messages')].text = Apology
             /\ ~chatIsLoading' ]_vars

\* Reached: after an exchange that ended with the apology, a send tried
\* while the second reply was pending was ignored.
C27_Witness ==
    /\ last = "handleSend"
    /\ lastOp = "ignored"
    /\ chatIsLoading
    /\ Len(messages) = 3
    /\ messages[2].text = Apology

\* C28: the history changes only by a successful analysis, which puts one
\* new entry in front of the earlier ones, and by clearHistory, which
\* empties it; a failed analysis leaves it as it was; and after every change
\* the text under the history key is the JSON text of the current history.
C28_HistoryFrame ==
    [][ /\ (history' # history /\ last' \notin {"Mount", "Reload"}) =>
             \/ /\ last' = "AnalysisSettle"
                /\ lastOp' \notin {"rejected", "empty", "unparsable"}
                /\ Len(history') = Len(history) + 1
                /\ Tail(history') = history
             \/ /\ last' = "clearHistory"
                /\ history' = << >>
        /\ (last' = "AnalysisSettle" /\ lastOp' \in {"rejected", "empty", "unparsable"})
             => history' = history
        /\ (history' # history /\ last' \notin {"Mount", "Reload"})
             => storedHistory' = JSONStringify(history') ]_vars

\* C29: whenever geolocation or the weather request fails, handleGetWeather
\* throws nothing, leaves a weather error message to show, leaves the soil
\* data of the form as it was, and the fetching flag is false.
C29_WeatherIsBestEffort ==
    [][ lastOp' = "failed" =>
          /\ ~weatherThrew'
          /\ weatherError' \notin {Null, ""}
          /\ formData' = formData
          /\ ~isFetchingWeather' ]_vars

\* Reached: the weather request failed after the user had moved a slider
\* during the request.
C29_Witness ==
    /\ last = "FetchWeatherSettle"
    /\ lastOp = "failed"
    /\ weatherError = "Could not fetch weather data. Please try again later."
    /\ formData.moisture = 40
    /\ ~isFetchingWeather

\* C30: when a voice command has been parsed, every field of the form that
\* the parsed data names with a number holds that number brought into the
\* field's bounds (pH 0..14, moisture 0..100, temperature -20..50, nitrogen,
\* phosphorus and potassium 0..100), and every other field holds what it
\* held; nothing is added to the form.
C30_ParsedValuesClamped ==
    [][ last' = "ParseSettle" =>
          /\ DOMAIN formData' = DOMAIN formData
          /\ \A i \in DOMAIN inputFields :
               LET f == inputFields[i]
                   k == f.name
               IN IF /\ lastOp' = "parsed"
                     /\ k \in DOMAIN parsedData'.fields
                     /\ parsedData'.fields[k].type = "number"
                  THEN LET v == parsedData'.fields[k].num
                       IN /\ formData'[k] >= f.min /\ formData'[k] <= f.max
                          /\ formData'[k] = IF v < f.min THEN f.min
                                            ELSE IF v > f.max THEN f.max ELSE v
                  ELSE formData'[k] = formData[k] ]_vars

\* Reached: a command parsed to a pH above 14, a temperature below -20 and
\* a field the form does not have.
C30_Witness ==
    /\ last = "ParseSettle"
    /\ lastOp = "parsed"
    /\ parsedData = Obj([ph |-> Num(120), temperature |-> Num(-25), colour |-> Str])
    /\ formData = [InitialFormData EXCEPT !.ph = 14, !.temperature = -20]


=============================================================================
